---- MODULE Spec2Model ----
(***************************************************************************)
(* Model of the mariadb-benchmark scripts.                                 *)
(*                                                                         *)
(*   run_benchmark.py      the load driver: main() submits NUM_THREADS     *)
(*                         calls of run_benchmark_thread to a thread pool  *)
(*                         and merges the futures' results                 *)
(*   cleanup_databases.py  drops the databases carrying the prefix         *)
(*                                                                         *)
(* Strings that the code formats, compares or tests for a prefix are       *)
(* modelled as sequences of one-character strings.                         *)
(***************************************************************************)
EXTENDS Integers, Sequences, FiniteSets, TLC

\* Bounds of the model.
MaxThreads == 2
MaxQueries == 3
MaxTotal == 4

\* random.choice(["SELECT", "INSERT", "UPDATE"])
QueryTypes == {"SELECT", "INSERT", "UPDATE"}

\* Sample values of time.time() - start_time for one query.
Durations == {1, 2}

\* Sample values of end_time - start_time for the whole run.
TotalDurations == {0, 4}

VARIABLES
    NUM_THREADS,         \* int(os.getenv("BENCHMARK_THREADS"))
    QUERIES_PER_THREAD,  \* int(os.getenv("BENCHMARK_QUERIES_PER_THREAD"))
    tpc,                 \* tpc[t]: position of run_benchmark_thread(t)
    it,                  \* it[t]: iterations of range(QUERIES_PER_THREAD) started
    query_times,         \* query_times[t]: the thread's local list
    errors,              \* errors[t]: the thread's local error count
    future,              \* future[t]: the value the call returned
    mpc,                 \* position of main()
    nsub,                \* number of calls submitted to the executor
    fidx,                \* number of futures the collector has merged
    all_query_times,     \* dict: query type -> list of execution times
    total_errors,
    total_queries,
    queries_per_second   \* <<numerator, denominator>>

\* cleanup_databases.py
VARIABLES
    DB_PREFIX,           \* os.getenv("BENCHMARK_DB_PREFIX")
    server_dbs,          \* what SHOW DATABASES answers, in the server's order
    cpc,                 \* position of cleanup's main()
    databases,           \* list_databases(connection)
    benchmark_dbs,       \* the names carrying the prefix
    confirm,             \* the operator's input
    didx,                \* position of the loop of line 83 (1-based)
    attempted,           \* names whose DROP DATABASE statement was executed
    dropped              \* names the server dropped

\* run_benchmark.py, the Insert branch in isolation
VARIABLES
    users                \* the Insert identities generated so far

bvars == <<NUM_THREADS, QUERIES_PER_THREAD, tpc, it, query_times, errors,
           future, mpc, nsub, fidx, all_query_times, total_errors,
           total_queries, queries_per_second>>
cvars == <<DB_PREFIX, server_dbs, cpc, databases, benchmark_dbs, confirm,
           didx, attempted, dropped>>
uvars == <<users>>

vars == <<bvars, cvars, uvars>>

Threads == 0 .. (NUM_THREADS - 1)

\* The call has returned, by line 92 ("returned") or by line 96 ("failed").
Done(t) == tpc[t] \in {"returned", "failed"}

\* all_query_times.get(k, [])
Lookup(aqt, k) == IF k \in DOMAIN aqt THEN aqt[k] ELSE <<>>

\* Lines 119-121: one (query_type, execution_time) pair into the dict.
AddTime(aqt, rec) ==
    LET k == rec[1]
        base == IF k \in DOMAIN aqt THEN aqt ELSE aqt @@ (k :> <<>>)
    IN  [base EXCEPT ![k] = Append(@, rec[2])]

\* Lines 118-121: the loop over one future's query_times.
RECURSIVE Group(_, _)
Group(aqt, qt) ==
    IF qt = <<>> THEN aqt ELSE Group(AddTime(aqt, Head(qt)), Tail(qt))

\* sum(len(times) for times in all_query_times.values())
RECURSIVE SumLen(_, _)
SumLen(aqt, keys) ==
    IF keys = {} THEN 0
    ELSE LET k == CHOOSE x \in keys : TRUE
         IN  Len(aqt[k]) + SumLen(aqt, keys \ {k})

TotalQueries(aqt) == SumLen(aqt, DOMAIN aqt)

\* total_queries / total_duration if total_duration > 0 else 0
Throughput(tq, td) == IF td > 0 THEN <<tq, td>> ELSE <<0, 1>>

BInit ==
    /\ NUM_THREADS \in 0 .. MaxThreads
    /\ QUERIES_PER_THREAD \in 0 .. MaxQueries
    /\ NUM_THREADS * QUERIES_PER_THREAD <= MaxTotal
    /\ tpc = [t \in Threads |-> "unsubmitted"]
    /\ it = [t \in Threads |-> 0]
    /\ query_times = [t \in Threads |-> <<>>]
    /\ errors = [t \in Threads |-> 0]
    /\ future = [t \in Threads |-> <<<<>>, 0>>]
    /\ mpc = "start"
    /\ nsub = 0
    /\ fidx = 0
    /\ all_query_times = <<>>
    /\ total_errors = 0
    /\ total_queries = 0
    /\ queries_per_second = <<0, 1>>

mainvars == <<mpc, nsub, fidx, all_query_times, total_errors, total_queries,
              queries_per_second>>
config == <<NUM_THREADS, QUERIES_PER_THREAD, cvars, uvars>>

(***************************************************************************)
(* run_benchmark_thread(thread_id)                                         *)
(***************************************************************************)

\* Lines 34-48: connect, open the cursor, initialise the locals.
ConnectOk(t) ==
    /\ tpc[t] = "connect"
    /\ tpc' = [tpc EXCEPT ![t] = "loop"]
    /\ query_times' = [query_times EXCEPT ![t] = <<>>]
    /\ errors' = [errors EXCEPT ![t] = 0]
    /\ UNCHANGED <<it, future, mainvars, config>>

\* ConnectFail with the handler returning [], 0: the failure is not counted.
ConnectFailUncounted(t) ==
    /\ tpc[t] = "connect"
    /\ tpc' = [tpc EXCEPT ![t] = "failed"]
    /\ future' = [future EXCEPT ![t] = <<<<>>, 0>>]
    /\ UNCHANGED <<it, query_times, errors, mainvars, config>>

\* Lines 37-45 raise; lines 94-96 return [], 1.
ConnectFail(t) ==
    /\ tpc[t] = "connect"
    /\ tpc' = [tpc EXCEPT ![t] = "failed"]
    /\ future' = [future EXCEPT ![t] = <<<<>>, 1>>]
    /\ UNCHANGED <<it, query_times, errors, mainvars, config>>

\* Lines 51-79: the next iteration's query succeeds and is recorded.
QueryOk(t) ==
    /\ tpc[t] = "loop"
    /\ it[t] < QUERIES_PER_THREAD
    /\ \E query_type \in QueryTypes, execution_time \in Durations :
          query_times' = [query_times EXCEPT
                             ![t] = Append(@, <<query_type, execution_time>>)]
    /\ it' = [it EXCEPT ![t] = @ + 1]
    /\ tpc' = [tpc EXCEPT ![t] = "sleep"]
    /\ UNCHANGED <<errors, future, mainvars, config>>

\* QueryFail without the inner try: the outer handler ends the thread.
QueryFailAborts(t) ==
    /\ tpc[t] = "loop"
    /\ it[t] < QUERIES_PER_THREAD
    /\ it' = [it EXCEPT ![t] = @ + 1]
    /\ tpc' = [tpc EXCEPT ![t] = "failed"]
    /\ future' = [future EXCEPT ![t] = <<<<>>, 1>>]
    /\ UNCHANGED <<query_times, errors, mainvars, config>>

\* Lines 51-76 raise: control passes to the handler of line 84.
QueryFail(t) ==
    /\ tpc[t] = "loop"
    /\ it[t] < QUERIES_PER_THREAD
    /\ it' = [it EXCEPT ![t] = @ + 1]
    /\ tpc' = [tpc EXCEPT ![t] = "except"]
    /\ UNCHANGED <<query_times, errors, future, mainvars, config>>

\* Line 82: time.sleep(0.1), inside the try block, after the append.
Sleep(t) ==
    /\ tpc[t] = "sleep"
    /\ tpc' = [tpc EXCEPT ![t] = "loop"]
    /\ UNCHANGED <<it, query_times, errors, future, mainvars, config>>

\* Except without errors += 1.
ExceptNoCount(t) ==
    /\ tpc[t] = "except"
    /\ tpc' = [tpc EXCEPT ![t] = "loop"]
    /\ UNCHANGED <<it, query_times, errors, future, mainvars, config>>

\* Except counting into the shared total instead of the local count.
ExceptShared(t) ==
    /\ tpc[t] = "except"
    /\ total_errors' = total_errors + 1
    /\ tpc' = [tpc EXCEPT ![t] = "loop"]
    /\ UNCHANGED <<it, query_times, errors, future, mpc, nsub, fidx,
                   all_query_times, total_queries, queries_per_second, config>>

\* Lines 84-86: log, errors += 1, on to the next iteration.
Except(t) ==
    /\ tpc[t] = "except"
    /\ errors' = [errors EXCEPT ![t] = @ + 1]
    /\ tpc' = [tpc EXCEPT ![t] = "loop"]
    /\ UNCHANGED <<it, query_times, future, mainvars, config>>

\* Lines 89-92: the loop is exhausted; close and return the locals.
CloseOk(t) ==
    /\ tpc[t] = "loop"
    /\ it[t] = QUERIES_PER_THREAD
    /\ future' = [future EXCEPT ![t] = <<query_times[t], errors[t]>>]
    /\ tpc' = [tpc EXCEPT ![t] = "returned"]
    /\ UNCHANGED <<it, query_times, errors, mainvars, config>>

\* Lines 89-90 raise inside the outer try; lines 94-96 return [], 1.
CloseFail(t) ==
    /\ tpc[t] = "loop"
    /\ it[t] = QUERIES_PER_THREAD
    /\ future' = [future EXCEPT ![t] = <<<<>>, 1>>]
    /\ tpc' = [tpc EXCEPT ![t] = "failed"]
    /\ UNCHANGED <<it, query_times, errors, mainvars, config>>

(***************************************************************************)
(* main()                                                                  *)
(***************************************************************************)
workervars == <<tpc, it, query_times, errors, future>>

\* Line 106: ThreadPoolExecutor(max_workers=NUM_THREADS).
CreatePool ==
    /\ mpc = "start"
    /\ mpc' = IF NUM_THREADS <= 0 THEN "raised" ELSE "submit"
    /\ UNCHANGED <<nsub, fidx, all_query_times, total_errors, total_queries,
                   queries_per_second, workervars, config>>

\* Line 107: executor.submit(run_benchmark_thread, i) starts a thread.
Submit ==
    /\ mpc = "submit"
    /\ nsub < NUM_THREADS
    /\ tpc' = [tpc EXCEPT ![nsub] = "connect"]
    /\ nsub' = nsub + 1
    /\ UNCHANGED <<mpc, fidx, all_query_times, total_errors, total_queries,
                   queries_per_second, it, query_times, errors, future, config>>

\* Lines 110-111: the collector's accumulators.
StartCollect ==
    /\ mpc = "submit"
    /\ nsub = NUM_THREADS
    /\ all_query_times' = <<>>
    /\ total_errors' = 0
    /\ fidx' = 0
    /\ mpc' = "collect"
    /\ UNCHANGED <<nsub, total_queries, queries_per_second, workervars, config>>

\* Collect reading the next future without waiting for its call to return.
CollectNoWait ==
    /\ mpc = "collect"
    /\ fidx < NUM_THREADS
    /\ total_errors' = total_errors + future[fidx][2]
    /\ all_query_times' = Group(all_query_times, future[fidx][1])
    /\ fidx' = fidx + 1
    /\ UNCHANGED <<mpc, nsub, total_queries, queries_per_second, workervars,
                   config>>

\* Lines 113-121: future.result() of the next future, merged.
Collect ==
    /\ mpc = "collect"
    /\ fidx < NUM_THREADS
    /\ Done(fidx)
    /\ total_errors' = total_errors + future[fidx][2]
    /\ all_query_times' = Group(all_query_times, future[fidx][1])
    /\ fidx' = fidx + 1
    /\ UNCHANGED <<mpc, nsub, total_queries, queries_per_second, workervars,
                   config>>

\* Line 122: leaving the with block joins the pool's threads.
ExitPool ==
    /\ mpc = "collect"
    /\ fidx = NUM_THREADS
    /\ \A t \in Threads : Done(t)
    /\ mpc' = "stats"
    /\ UNCHANGED <<nsub, fidx, all_query_times, total_errors, total_queries,
                   queries_per_second, workervars, config>>

\* Lines 123-135: totals, throughput, the report.
Report ==
    /\ mpc = "stats"
    /\ \E total_duration \in TotalDurations :
          /\ total_queries' = TotalQueries(all_query_times)
          /\ queries_per_second' =
                 Throughput(TotalQueries(all_query_times), total_duration)
    /\ mpc' = "done"
    /\ UNCHANGED <<nsub, fidx, all_query_times, total_errors, workervars, config>>

ThreadStep(t) ==
    \/ ConnectOk(t)
    \/ ConnectFail(t)
    \/ QueryOk(t)
    \/ QueryFail(t)
    \/ Sleep(t)
    \/ Except(t)
    \/ CloseOk(t)
    \/ CloseFail(t)

MainStep ==
    \/ CreatePool
    \/ Submit
    \/ StartCollect
    \/ Collect
    \/ ExitPool
    \/ Report

BNext ==
    \/ CreatePool
    \/ Submit
    \/ StartCollect
    \/ Collect
    \/ ExitPool
    \/ Report
    \/ \E t \in Threads : ConnectOk(t)
    \/ \E t \in Threads : ConnectFail(t)
    \/ \E t \in Threads : QueryOk(t)
    \/ \E t \in Threads : QueryFail(t)
    \/ \E t \in Threads : Sleep(t)
    \/ \E t \in Threads : Except(t)
    \/ \E t \in Threads : CloseOk(t)
    \/ \E t \in Threads : CloseFail(t)

(***************************************************************************)
(* run_benchmark.py, lines 65-66: the identity of an inserted row          *)
(***************************************************************************)
MaxId == 11

DigitChars == <<"0", "1", "2", "3", "4", "5", "6", "7", "8", "9">>

\* str(n) of a non-negative int, as the f-string formats it.
RECURSIVE Str(_)
Str(n) ==
    IF n < 10 THEN <<DigitChars[n + 1]>>
    ELSE Str(n \div 10) \o <<DigitChars[(n % 10) + 1]>>

\* Username without the separator between the two numbers.
UsernameNoSeparator(thread_id, i) ==
    <<"u", "s", "e", "r", "_">> \o Str(thread_id) \o Str(i)

\* Line 65: f"user_{thread_id}_{i}"
Username(thread_id, i) ==
    <<"u", "s", "e", "r", "_">> \o Str(thread_id) \o <<"_">> \o Str(i)

\* Line 66: f"{username}@example.com"
Email(username) ==
    username \o <<"@", "e", "x", "a", "m", "p", "l", "e", ".", "c", "o", "m">>

UInit == users = <<>>

\* Lines 63-71: thread thread_id inserts the row of its iteration i.
Insert(thread_id, i) ==
    /\ Len(users) < 2
    /\ users' = Append(users,
                       [thread_id |-> thread_id, i |-> i,
                        username |-> Username(thread_id, i),
                        email |-> Email(Username(thread_id, i))])
    /\ UNCHANGED <<bvars, cvars>>

UNext == \E thread_id \in 0 .. MaxId, i \in 0 .. MaxId : Insert(thread_id, i)

(***************************************************************************)
(* cleanup_databases.py                                                    *)
(***************************************************************************)

\* Database names a server may hold, in the order it lists them.
AllDatabases ==
    << <<"m", "y", "s", "q", "l">>, <<"b", "_", "1">>, <<"b", "_", "2">>,
       <<"a", "b">>, <<"b", "_", "3">> >>

Prefixes == { <<"b", "_">>, <<"a">>, <<>> }

\* What the operator may type at the prompt.
Inputs == { <<"y">>, <<"Y">>, <<"n">>, <<>>, <<"y", "e", "s">>, <<"Y", "E", "S">> }

\* str.lower() on the characters the inputs use.
LowerChar(c) ==
    CASE c = "Y" -> "y"
      [] c = "E" -> "e"
      [] c = "S" -> "s"
      [] OTHER -> c

Lower(s) == [k \in 1 .. Len(s) |-> LowerChar(s[k])]

\* db.startswith(DB_PREFIX)
StartsWith(s, p) == Len(p) <= Len(s) /\ SubSeq(s, 1, Len(p)) = p

HasPrefix(db) == StartsWith(db, DB_PREFIX)

\* The sub-lists of AllDatabases.
RECURSIVE SubLists(_)
SubLists(s) ==
    IF s = <<>> THEN { <<>> }
    ELSE LET rest == SubLists(Tail(s))
         IN  rest \cup { <<Head(s)>> \o r : r \in rest }

CInit ==
    /\ DB_PREFIX \in Prefixes
    /\ server_dbs \in SubLists(AllDatabases)
    /\ cpc = "connect"
    /\ databases = <<>>
    /\ benchmark_dbs = <<>>
    /\ confirm = <<>>
    /\ didx = 1
    /\ attempted = <<>>
    /\ dropped = {}

\* Lines 22-31.
CleanupConnectOk ==
    /\ cpc = "connect"
    /\ cpc' = "list"
    /\ UNCHANGED <<DB_PREFIX, server_dbs, databases, benchmark_dbs, confirm,
                   didx, attempted, dropped, bvars, uvars>>

\* Lines 32-34: the error is logged and raised again.
CleanupConnectFail ==
    /\ cpc = "connect"
    /\ cpc' = "raised"
    /\ UNCHANGED <<DB_PREFIX, server_dbs, databases, benchmark_dbs, confirm,
                   didx, attempted, dropped, bvars, uvars>>

\* Lines 36-41, 63.
ListOk ==
    /\ cpc = "list"
    /\ databases' = server_dbs
    /\ cpc' = "filter"
    /\ UNCHANGED <<DB_PREFIX, server_dbs, benchmark_dbs, confirm, didx,
                   attempted, dropped, bvars, uvars>>

\* Lines 37, 42-44: the cursor or the statement raises.
ListFail ==
    /\ cpc = "list"
    /\ cpc' = "raised"
    /\ UNCHANGED <<DB_PREFIX, server_dbs, databases, benchmark_dbs, confirm,
                   didx, attempted, dropped, bvars, uvars>>

\* Lines 66-70.
FindBenchmarkDbs ==
    /\ cpc = "filter"
    /\ benchmark_dbs' = SelectSeq(databases, HasPrefix)
    /\ cpc' = IF SelectSeq(databases, HasPrefix) = <<>> THEN "none_found"
              ELSE "confirm"
    /\ UNCHANGED <<DB_PREFIX, server_dbs, databases, confirm, didx, attempted,
                   dropped, bvars, uvars>>

\* Lines 77-80.
Confirm ==
    /\ cpc = "confirm"
    /\ \E inp \in Inputs :
          /\ confirm' = inp
          /\ cpc' = IF Lower(inp) # <<"y">> THEN "cancelled" ELSE "drop"
    /\ UNCHANGED <<DB_PREFIX, server_dbs, databases, benchmark_dbs, didx,
                   attempted, dropped, bvars, uvars>>

\* Lines 83-84, 49-52, 56: the statement succeeds.
DropOk ==
    /\ cpc = "drop"
    /\ didx <= Len(benchmark_dbs)
    /\ attempted' = Append(attempted, benchmark_dbs[didx])
    /\ dropped' = dropped \cup {benchmark_dbs[didx]}
    /\ didx' = didx + 1
    /\ UNCHANGED <<DB_PREFIX, server_dbs, cpc, databases, benchmark_dbs,
                   confirm, bvars, uvars>>

\* Lines 51, 53-56: the statement raises; the error is logged.
DropExecuteFail ==
    /\ cpc = "drop"
    /\ didx <= Len(benchmark_dbs)
    /\ attempted' = Append(attempted, benchmark_dbs[didx])
    /\ didx' = didx + 1
    /\ UNCHANGED <<DB_PREFIX, server_dbs, cpc, databases, benchmark_dbs,
                   confirm, dropped, bvars, uvars>>

\* Line 49: connection.cursor() raises, outside the try block.
DropCursorFail ==
    /\ cpc = "drop"
    /\ didx <= Len(benchmark_dbs)
    /\ cpc' = "raised"
    /\ UNCHANGED <<DB_PREFIX, server_dbs, databases, benchmark_dbs, confirm,
                   didx, attempted, dropped, bvars, uvars>>

\* Lines 87-88.
CleanupClose ==
    /\ cpc = "drop"
    /\ didx > Len(benchmark_dbs)
    /\ cpc' = "done"
    /\ UNCHANGED <<DB_PREFIX, server_dbs, databases, benchmark_dbs, confirm,
                   didx, attempted, dropped, bvars, uvars>>

CNext ==
    \/ CleanupConnectOk
    \/ CleanupConnectFail
    \/ ListOk
    \/ ListFail
    \/ FindBenchmarkDbs
    \/ Confirm
    \/ DropOk
    \/ DropExecuteFail
    \/ DropCursorFail
    \/ CleanupClose

(***************************************************************************)
(* Specifications.  Each script runs alone; the other scripts' variables   *)
(* stay at their idle values.                                              *)
(***************************************************************************)
BIdle ==
    /\ NUM_THREADS = 0
    /\ QUERIES_PER_THREAD = 0
    /\ tpc = <<>>
    /\ it = <<>>
    /\ query_times = <<>>
    /\ errors = <<>>
    /\ future = <<>>
    /\ mpc = "idle"
    /\ nsub = 0
    /\ fidx = 0
    /\ all_query_times = <<>>
    /\ total_errors = 0
    /\ total_queries = 0
    /\ queries_per_second = <<0, 1>>

CIdle ==
    /\ DB_PREFIX = <<>>
    /\ server_dbs = <<>>
    /\ cpc = "idle"
    /\ databases = <<>>
    /\ benchmark_dbs = <<>>
    /\ confirm = <<>>
    /\ didx = 1
    /\ attempted = <<>>
    /\ dropped = {}

Init == BInit /\ CIdle /\ UInit
Next == BNext

Spec == Init /\ [][Next]_vars

\* Every thread the pool started keeps running, and so does main().
FairSpec ==
    /\ Spec
    /\ WF_vars(MainStep)
    /\ \A t \in 0 .. (MaxThreads - 1) : WF_vars(t \in Threads /\ ThreadStep(t))

InitCleanup == BIdle /\ CInit /\ UInit
SpecCleanup == InitCleanup /\ [][CNext]_vars

InitInsert == BIdle /\ CIdle /\ UInit
SpecInsert == InitInsert /\ [][UNext]_vars

(***************************************************************************)
(* Properties of the load driver                                           *)
(***************************************************************************)

\* The collector has merged every future.
CollectorFinished ==
    \/ mpc \in {"stats", "done"}
    \/ mpc = "collect" /\ fidx = NUM_THREADS

Returned == {t \in Threads : tpc[t] = "returned"}
Failed == {t \in Threads : tpc[t] = "failed"}

\* C1 as stated: once the collector has merged every future, the number of
\* merged Query Records plus the total error count is NUM_THREADS *
\* QUERIES_PER_THREAD, whatever the connection and query outcomes were.
C1_AccountsEveryQuery ==
    CollectorFinished =>
        TotalQueries(all_query_times) + total_errors
            = NUM_THREADS * QUERIES_PER_THREAD

\* C1 amended: once the collector has merged every future, records plus
\* errors is QUERIES_PER_THREAD for each thread that returned its own lists
\* (line 92) plus one for each thread that returned through the outer
\* handler (line 96).
C1_AccountsPerThread ==
    CollectorFinished =>
        TotalQueries(all_query_times) + total_errors
            = QUERIES_PER_THREAD * Cardinality(Returned) + Cardinality(Failed)

C1_Witness ==
    /\ CollectorFinished
    /\ QUERIES_PER_THREAD = 2
    /\ Failed # {}
    /\ \E t \in Returned : Len(query_times[t]) = 1 /\ errors[t] = 1

\* C2 as stated: with NUM_THREADS = 0 or QUERIES_PER_THREAD = 0 main() raises
\* nothing, and what it reports is zero queries, zero errors and a
\* throughput of zero.
C2_EmptyRunReportsZero ==
    (NUM_THREADS = 0 \/ QUERIES_PER_THREAD = 0) =>
        /\ mpc # "raised"
        /\ mpc = "done" =>
              /\ total_queries = 0
              /\ total_errors = 0
              /\ queries_per_second[1] = 0

\* The execution times of type k in one thread's list, in order.
TimesOf(k, qt) ==
    LET sel == SelectSeq(qt, LAMBDA rec : rec[1] = k)
    IN  [j \in 1 .. Len(sel) |-> sel[j][2]]

\* What the first n threads' own lists hold for type k; a thread that
\* returned through the outer handler adds nothing.
RECURSIVE OwnTimes(_, _)
OwnTimes(k, n) ==
    IF n = 0 THEN <<>>
    ELSE OwnTimes(k, n - 1)
            \o (IF tpc[n - 1] = "returned" THEN TimesOf(k, query_times[n - 1])
                ELSE <<>>)

RECURSIVE OwnErrors(_)
OwnErrors(n) ==
    IF n = 0 THEN 0
    ELSE OwnErrors(n - 1)
            + (IF tpc[n - 1] = "returned" THEN errors[n - 1] ELSE 1)

\* C3: a thread whose connection attempt fails returns no Query Records and
\* an error count of 1; every other thread runs all its iterations, and what
\* the collector has merged is exactly the other threads' records, in order,
\* with one error for the failing thread.
C3_ConnectionFailureIsLocal ==
    /\ \A t \in Failed : future[t] = <<<<>>, 1>>
    /\ \A t \in Returned :
          /\ it[t] = QUERIES_PER_THREAD
          /\ future[t] = <<query_times[t], errors[t]>>
    /\ mpc \in {"collect", "stats", "done"} =>
          /\ \A k \in QueryTypes :
                Lookup(all_query_times, k) = OwnTimes(k, fidx)
          /\ total_errors = OwnErrors(fidx)

C3_Witness ==
    /\ CollectorFinished
    /\ QUERIES_PER_THREAD >= 1
    /\ \E t \in Failed : it[t] = 0
    /\ \E t \in Returned : Len(query_times[t]) >= 1

C5_SleepAfterEveryQuery ==
    [][\A t \in Threads : it'[t] # it[t] => tpc'[t] = "sleep"]_vars

\* C7 as stated: every started thread eventually returns, and once all
\* threads have returned main() eventually reports.
C7_RunAlwaysReports ==
    /\ \A t \in 0 .. (MaxThreads - 1) :
          (t \in Threads /\ tpc[t] # "unsubmitted")
              ~> (t \in Threads /\ Done(t))
    /\ (\A t \in Threads : Done(t)) ~> (mpc = "done")

\* C8: a connected thread attempts the iterations 0 .. QUERIES_PER_THREAD-1
\* one by one; a successful query appends one record and leaves the error
\* count alone, a failed one adds one to the error count and appends
\* nothing, and the thread leaves the loop only when all are attempted.
C8_OneOutcomePerIteration ==
    [][\A t \in Threads :
          /\ it'[t] # it[t] =>
                /\ tpc[t] = "loop"
                /\ it[t] < QUERIES_PER_THREAD
                /\ it'[t] = it[t] + 1
                /\ \/ /\ tpc'[t] = "sleep"
                      /\ \E k \in QueryTypes, d \in Durations :
                            query_times'[t] = Append(query_times[t], <<k, d>>)
                      /\ errors'[t] = errors[t]
                   \/ /\ tpc'[t] = "except"
                      /\ query_times'[t] = query_times[t]
                      /\ errors'[t] = errors[t]
          /\ (tpc[t] = "except" /\ tpc'[t] # "except") =>
                /\ tpc'[t] = "loop"
                /\ errors'[t] = errors[t] + 1
                /\ query_times'[t] = query_times[t]
                /\ it'[t] = it[t]
          /\ query_times'[t] # query_times[t] => it'[t] = it[t] + 1
          /\ errors'[t] # errors[t] => tpc[t] = "except"
          /\ (tpc[t] = "loop" /\ Done(t)') =>
                /\ it[t] = QUERIES_PER_THREAD
                /\ Len(query_times[t]) + errors[t] = QUERIES_PER_THREAD
      ]_vars

C8_Witness ==
    \E t \in Returned :
        /\ QUERIES_PER_THREAD = 3
        /\ errors[t] = 2
        /\ Len(query_times[t]) = 1

\* C9: a thread's list and error count change only in a step of that
\* thread, which changes nothing of main() and nothing of another thread;
\* the merged mapping and the total error count change only in a step of
\* the collector, which merges the returned value of a thread that has
\* returned and changes nothing of any thread.
C9_NoSharedMutation ==
    [][/\ \A t \in Threads :
             (query_times'[t] # query_times[t] \/ errors'[t] # errors[t]) =>
                 /\ tpc[t] \in {"loop", "except"}
                 /\ tpc'[t] # tpc[t]
                 /\ UNCHANGED mainvars
                 /\ \A u \in Threads \ {t} :
                       /\ query_times'[u] = query_times[u]
                       /\ errors'[u] = errors[u]
                       /\ tpc'[u] = tpc[u]
       /\ (all_query_times' # all_query_times \/ total_errors' # total_errors) =>
             /\ mpc = "collect"
             /\ fidx' = fidx + 1
             /\ Done(fidx)
             /\ UNCHANGED workervars
      ]_vars

C9_Witness ==
    /\ mpc = "collect"
    /\ fidx >= 1
    /\ total_errors >= 1
    /\ \E t \in Threads : tpc[t] = "except" /\ Len(query_times[t]) >= 1

(***************************************************************************)
(* Properties of the Insert identity                                       *)
(***************************************************************************)

\* C6: two Inserts of one run that differ in thread id or in iteration
\* index carry different usernames.
C6_InsertIdentitiesDistinct ==
    \A a, b \in 1 .. Len(users) :
        users[a].username = users[b].username =>
            /\ users[a].thread_id = users[b].thread_id
            /\ users[a].i = users[b].i

C6_Witness ==
    /\ Len(users) = 2
    /\ users[1].thread_id = 1 /\ users[1].i = 10
    /\ users[2].thread_id = 11 /\ users[2].i = 0

(***************************************************************************)
(* Properties of the cleanup script                                        *)
(***************************************************************************)

Listed == {databases[j] : j \in 1 .. Len(databases)}

\* C10 as stated: a DROP DATABASE is executed only for a listed name that
\* carries the prefix and only after an input equal to 'y' up to case; with
\* another input, or with no such name, nothing is dropped; and once the
\* operator has confirmed, the script ends only after the DROP of every
\* listed benchmark database has been attempted, whatever failed.
C10_DropsOnlyConfirmedAndAll ==
    /\ \A j \in 1 .. Len(attempted) :
          /\ attempted[j] \in Listed
          /\ HasPrefix(attempted[j])
          /\ Lower(confirm) = <<"y">>
    /\ dropped \subseteq {attempted[j] : j \in 1 .. Len(attempted)}
    /\ cpc \in {"cancelled", "none_found"} => attempted = <<>> /\ dropped = {}
    /\ (cpc \in {"done", "raised"} /\ Lower(confirm) = <<"y">>) =>
          \A j \in (didx + 1) .. Len(benchmark_dbs) :
              benchmark_dbs[j] \in {attempted[n] : n \in 1 .. Len(attempted)}

====
